---- MODULE Spec2Model ----
(***************************************************************************)
(* The coordinator protocol state machine of                               *)
(* rust/src/coordinator/core/protocol.rs, driven by a host that keeps the  *)
(* client registry, passes the registry state of the client to each entry  *)
(* point and applies the emitted events to the registry.                   *)
(*                                                                         *)
(* u32 values are kept as 32-bit two's complement integers: a negative     *)
(* integer v stands for the u32 value 2^32 + v.  Addition and subtraction  *)
(* are then the plain integer operations, and only the order and the       *)
(* f64 rounding need their own operators (ULt, ceil_ratio).                *)
(* participants_ratio is a pair <<num, den>> with den a power of two, so   *)
(* that the f64 products of the source are exact.                          *)
(*                                                                         *)
(* Spec is the driver with that host; StaleTimerSpec adds timers that fire *)
(* for clients without a heartbeat; CampaignSpec is the well-behaved       *)
(* campaign of test_case_1; DriverSpec is the driver alone, preloaded and  *)
(* called once with any prior state, as in the unit tests; PolicySpec is   *)
(* the selection policy on a preloaded driver; QueueSpec is the driver     *)
(* with a caller that lets the event queue grow over several calls.        *)
(***************************************************************************)
EXTENDS Integers, Sequences, FiniteSets, TLC

\* ------------------------------------------------------------------ bounds
MaxRounds == 2
MaxMinClients == 2
MaxFailedAggregations == 1
\* largest value of a preloaded counter (DriverSpec)
MaxCounter == 1
\* largest value of a preloaded counter (PolicySpec)
MaxPolicyCounter == 3
\* calls are made while fewer events than this were emitted (QueueSpec)
MaxQueued == 4
\* largest number of next_event calls (QueueSpec)
MaxReturned == 5

\* the client ids (ClientId): a population of two
Clients == {1, 2}
Ratios == {<<1, 1>>, <<1, 2>>}

\* ------------------------------------------------------------ ClientState
ClientState ==
    {"Unknown", "Waiting", "Selected", "Done", "DoneAndInactive", "Ignored"}

\* ------------------------------------------------------------------ Event
Ev(type, id, state, n) == [type |-> type, id |-> id, state |-> state, n |-> n]
Accept(id) == Ev("Accept", id, "-", 0)
Remove(id) == Ev("Remove", id, "-", 0)
SetState(id, state) == Ev("SetState", id, state, 0)
ResetAll == Ev("ResetAll", 0, "-", 0)
ResetHeartBeat(id) == Ev("ResetHeartBeat", id, "-", 0)
RunAggregation == Ev("RunAggregation", 0, "-", 0)
RunSelection(n) == Ev("RunSelection", 0, "-", n)
EndRound(r) == Ev("EndRound", 0, "-", r)

\* ---------------------------------------------------------------- replies
Reply(kind, round) == [kind |-> kind, round |-> round]
NoReply == Reply("None", 0)

\* an entry-point call with its arguments (unused ones as in Ev; candidates is
\* the argument of select)
CallOf(op, id, state, success, candidates) ==
    [op |-> op, id |-> id, state |-> state, success |-> success,
     candidates |-> candidates]
NoCall == CallOf("-", 0, "-", FALSE, <<>>)

\* ----------------------------------------------------------------- state
\* the Protocol struct, plus panicked: the call unwound by a panic
VARIABLE protocol
\* build profile: arithmetic overflow panics (debug) or wraps (release)
VARIABLE overflow_checks
\* the host's client registry: id -> ClientState
VARIABLE registry
\* the value returned by the entry-point call just made (sent to the client
\* before the host turns to the event queue)
VARIABLE reply
\* ids that got SetState(id, Selected) since the last ResetAll
VARIABLE selected_in_round
\* the arguments of the EndRound events emitted so far
VARIABLE end_rounds
\* RunAggregation was emitted and end_aggregation not called since
VARIABLE agg_outstanding
\* number of end_aggregation(false) calls so far
VARIABLE failed_aggregations
\* the entry-point call made on a driver exercised in isolation (DriverSpec)
VARIABLE call
\* the events emitted so far, in the order of emission (QueueSpec)
VARIABLE appended
\* the values returned by the next_event calls so far (QueueSpec)
VARIABLE returned

vars == <<protocol, overflow_checks, registry, reply, selected_in_round,
          end_rounds, agg_outstanding, failed_aggregations, call, appended, returned>>

\* ------------------------------------------------------------- u32 helpers
MinI32 == -2147483647 - 1

\* a < b as u32 values
ULt(a, b) == IF (a < 0) = (b < 0) THEN a < b ELSE b < 0

\* ceil(ratio * t as f64) as i64 as u32, for ratio = num/den, den in {1, 2}
ceil_ratio(ratio, t) ==
    LET num == ratio[1]
        den == ratio[2]
    IN  IF t >= 0 THEN (num * t + den - 1) \div den
        ELSE IF den = 1 THEN t
        ELSE \* 2^31 - floor(|t| / 2), as a two's complement value
             LET k == (-t) \div 2
             IN  IF k = 0 THEN MinI32 ELSE 2147483647 - (k - 1)

\* ------------------------------------------------------------- Counters
Counters_new ==
    [waiting |-> 0, selected |-> 0, done |-> 0, done_and_inactive |-> 0, ignored |-> 0]

\* FederatedLearningSettings::minimum_participants
minimum_participants(settings) ==
    (settings.participants_ratio[1] * settings.min_clients)
        \div settings.participants_ratio[2]

\* Option<u32>, plus the panic of an overflowing subtraction
None == [tag |-> "None", value |-> 0]
Some(n) == [tag |-> "Some", value |-> n]
Overflow == [tag |-> "Panic", value |-> 0]

\* mutant: the check of the population against min_clients is left out
number_of_clients_to_select_no_min_clients(self) ==
    IF self.is_training_complete \/ self.waiting_for_aggregation THEN None
    ELSE
    LET participants ==
            self.counters.selected + self.counters.done + self.counters.done_and_inactive
        total_clients == participants + self.counters.waiting
        total_to_select == ceil_ratio(self.settings.participants_ratio, total_clients)
    IN  IF ~ULt(participants, minimum_participants(self.settings)) THEN None
        ELSE IF ULt(total_to_select, participants) /\ overflow_checks THEN Overflow
        ELSE Some(total_to_select - participants)

\* mutant: is_training_complete is not looked at
number_of_clients_to_select_ignores_complete(self) ==
    IF self.waiting_for_aggregation THEN None
    ELSE
    LET participants ==
            self.counters.selected + self.counters.done + self.counters.done_and_inactive
        total_clients == participants + self.counters.waiting
        total_to_select == ceil_ratio(self.settings.participants_ratio, total_clients)
    IN  IF ~ULt(participants, minimum_participants(self.settings)) THEN None
        ELSE IF ULt(total_clients, self.settings.min_clients) THEN None
        ELSE IF ULt(total_to_select, participants) /\ overflow_checks THEN Overflow
        ELSE Some(total_to_select - participants)

\* mutant: selection goes on until the participants exceed the minimum
number_of_clients_to_select_off_by_one(self) ==
    IF self.is_training_complete \/ self.waiting_for_aggregation THEN None
    ELSE
    LET participants ==
            self.counters.selected + self.counters.done + self.counters.done_and_inactive
        total_clients == participants + self.counters.waiting
        total_to_select == ceil_ratio(self.settings.participants_ratio, total_clients)
    IN  IF ULt(minimum_participants(self.settings), participants) THEN None
        ELSE IF ULt(total_clients, self.settings.min_clients) THEN None
        ELSE IF ULt(total_to_select, participants) /\ overflow_checks THEN Overflow
        ELSE Some(total_to_select - participants)

\* mutant: waiting_for_aggregation is not looked at
number_of_clients_to_select_during_aggregation(self) ==
    IF self.is_training_complete THEN None
    ELSE
    LET participants ==
            self.counters.selected + self.counters.done + self.counters.done_and_inactive
        total_clients == participants + self.counters.waiting
        total_to_select == ceil_ratio(self.settings.participants_ratio, total_clients)
    IN  IF ~ULt(participants, minimum_participants(self.settings)) THEN None
        ELSE IF ULt(total_clients, self.settings.min_clients) THEN None
        ELSE IF ULt(total_to_select, participants) /\ overflow_checks THEN Overflow
        ELSE Some(total_to_select - participants)

\* mutant: the number of clients to have in the round is rounded down
number_of_clients_to_select_rounds_down(self) ==
    IF self.is_training_complete \/ self.waiting_for_aggregation THEN None
    ELSE
    LET participants ==
            self.counters.selected + self.counters.done + self.counters.done_and_inactive
        total_clients == participants + self.counters.waiting
        total_to_select ==
            (self.settings.participants_ratio[1] * total_clients)
                \div self.settings.participants_ratio[2]
    IN  IF ~ULt(participants, minimum_participants(self.settings)) THEN None
        ELSE IF ULt(total_clients, self.settings.min_clients) THEN None
        ELSE IF ULt(total_to_select, participants) /\ overflow_checks THEN Overflow
        ELSE Some(total_to_select - participants)

number_of_clients_to_select(self) ==
    IF self.is_training_complete \/ self.waiting_for_aggregation THEN None
    ELSE
    LET waiting == self.counters.waiting
        selected == self.counters.selected
        done == self.counters.done
        done_and_inactive == self.counters.done_and_inactive
        total_participants == selected + done + done_and_inactive
        total_clients == total_participants + waiting
        total_to_select == ceil_ratio(self.settings.participants_ratio, total_clients)
    IN  IF ~ULt(total_participants, minimum_participants(self.settings)) THEN None
        ELSE IF ULt(total_clients, self.settings.min_clients) THEN None
        ELSE IF ULt(total_to_select, total_participants) /\ overflow_checks THEN Overflow
        ELSE Some(total_to_select - total_participants)

\* mutant: the event is pushed at the front of the queue
emit_event_push_front(self, event) == [self EXCEPT !.events = <<event>> \o @]

emit_event(self, event) == [self EXCEPT !.events = Append(@, event)]

panic(self) == [self EXCEPT !.panicked = TRUE]

maybe_start_selection(self) ==
    IF self.panicked THEN self
    ELSE LET count == number_of_clients_to_select(self)
         IN  CASE count.tag = "Some" -> emit_event(self, RunSelection(count.value))
               [] count.tag = "Panic" -> panic(self)
               [] OTHER -> self

is_end_of_round(self) ==
    self.counters.selected = 0 /\ number_of_clients_to_select(self).tag = "None"

\* self.counters.<field> += 1
incr(self, field) ==
    IF self.panicked THEN self
    ELSE [self EXCEPT !.counters[field] = @ + 1]

\* self.counters.<field> -= 1
decr(self, field) ==
    IF self.panicked THEN self
    ELSE IF self.counters[field] = 0 /\ overflow_checks THEN panic(self)
    ELSE [self EXCEPT !.counters[field] = @ - 1]

\* emit_event in a call that may already have unwound
emit(self, event) == IF self.panicked THEN self ELSE emit_event(self, event)

Protocol_new(settings) ==
    [ settings |-> settings,
      counters |-> Counters_new,
      is_training_complete |-> FALSE,
      waiting_for_aggregation |-> FALSE,
      current_round |-> 0,
      events |-> <<>>,
      panicked |-> FALSE ]

\* ------------------------------------------------------------ entry points
RECURSIVE select_loop(_, _, _)
\* the while loop of Protocol::select
select_loop(self, total_needed, candidates) ==
    IF self.panicked \/ total_needed = 0 \/ candidates = <<>> THEN self
    ELSE LET c == Head(candidates)
         IN  IF c.state = "Waiting"
             THEN select_loop(
                      emit(decr(incr(self, "selected"), "waiting"),
                           SetState(c.id, "Selected")),
                      total_needed - 1, Tail(candidates))
             ELSE select_loop(self, total_needed, Tail(candidates))

\* mutant: one candidate more than needed is consumed
select_one_more(self, candidates) ==
    LET count == number_of_clients_to_select(self)
    IN  CASE count.tag = "Some" ->
                 maybe_start_selection(select_loop(self, count.value + 1, candidates))
          [] count.tag = "Panic" -> panic(self)
          [] OTHER -> maybe_start_selection(self)

select(self, candidates) ==
    LET count == number_of_clients_to_select(self)
    IN  CASE count.tag = "Some" ->
                 maybe_start_selection(select_loop(self, count.value, candidates))
          [] count.tag = "Panic" -> panic(self)
          [] OTHER -> maybe_start_selection(self)

\* mutant: the selection is evaluated before the request is taken into account
rendez_vous_selects_first(self, id, client_state) ==
    IF self.is_training_complete THEN [self |-> self, response |-> Reply("Reject", 0)]
    ELSE
    LET started == maybe_start_selection(self)
        after ==
            CASE client_state = "Unknown" ->
                     emit(incr(started, "waiting"), Accept(id))
              [] client_state = "Waiting" -> started
              [] client_state = "Selected" ->
                     emit(incr(decr(started, "selected"), "ignored"),
                          SetState(id, "Ignored"))
              [] client_state \in {"DoneAndInactive", "Done"} ->
                     emit(incr(started, "ignored"), SetState(id, "Ignored"))
              [] client_state = "Ignored" -> started
    IN  [self |-> after, response |-> Reply("Accept", 0)]

\* mutant: a Done client that sends a rendez-vous leaves the done count
rendez_vous_moves_done_to_ignored(self, id, client_state) ==
    IF self.is_training_complete THEN [self |-> self, response |-> Reply("Reject", 0)]
    ELSE
    LET after ==
            CASE client_state = "Unknown" ->
                     emit(incr(self, "waiting"), Accept(id))
              [] client_state = "Waiting" -> self
              [] client_state = "Selected" ->
                     emit(incr(decr(self, "selected"), "ignored"),
                          SetState(id, "Ignored"))
              [] client_state = "Done" ->
                     emit(incr(decr(self, "done"), "ignored"), SetState(id, "Ignored"))
              [] client_state = "DoneAndInactive" ->
                     emit(incr(self, "ignored"), SetState(id, "Ignored"))
              [] client_state = "Ignored" -> self
    IN  [self |-> maybe_start_selection(after), response |-> Reply("Accept", 0)]

\* mutant: the rendez-vous of a Waiting client is counted as a new client
rendez_vous_counts_waiting_again(self, id, client_state) ==
    IF self.is_training_complete THEN [self |-> self, response |-> Reply("Reject", 0)]
    ELSE
    LET after ==
            CASE client_state \in {"Unknown", "Waiting"} ->
                     emit(incr(self, "waiting"), Accept(id))
              [] client_state = "Selected" ->
                     emit(incr(decr(self, "selected"), "ignored"),
                          SetState(id, "Ignored"))
              [] client_state \in {"DoneAndInactive", "Done"} ->
                     emit(incr(self, "ignored"), SetState(id, "Ignored"))
              [] client_state = "Ignored" -> self
    IN  [self |-> maybe_start_selection(after), response |-> Reply("Accept", 0)]

\* mutant: a complete campaign rejects new clients only
rendez_vous_rejects_unknown_only(self, id, client_state) ==
    IF self.is_training_complete /\ client_state = "Unknown"
    THEN [self |-> self, response |-> Reply("Reject", 0)]
    ELSE
    LET after ==
            CASE client_state = "Unknown" ->
                     emit(incr(self, "waiting"), Accept(id))
              [] client_state = "Waiting" -> self
              [] client_state = "Selected" ->
                     emit(incr(decr(self, "selected"), "ignored"),
                          SetState(id, "Ignored"))
              [] client_state \in {"DoneAndInactive", "Done"} ->
                     emit(incr(self, "ignored"), SetState(id, "Ignored"))
              [] client_state = "Ignored" -> self
    IN  [self |-> maybe_start_selection(after), response |-> Reply("Accept", 0)]

\* the driver after the call, and the response
rendez_vous(self, id, client_state) ==
    IF self.is_training_complete THEN [self |-> self, response |-> Reply("Reject", 0)]
    ELSE
    LET after ==
            CASE client_state = "Unknown" ->
                     emit(incr(self, "waiting"), Accept(id))
              [] client_state = "Waiting" -> self
              [] client_state = "Selected" ->
                     emit(incr(decr(self, "selected"), "ignored"),
                          SetState(id, "Ignored"))
              [] client_state \in {"DoneAndInactive", "Done"} ->
                     emit(incr(self, "ignored"), SetState(id, "Ignored"))
              [] client_state = "Ignored" -> self
    IN  [self |-> maybe_start_selection(after), response |-> Reply("Accept", 0)]

\* mutant: the timeout of an Ignored client decrements waiting
heartbeat_timeout_wrong_counter(self, id, client_state) ==
    LET removed == emit_event(self, Remove(id))
        after ==
            CASE client_state = "Selected" -> decr(removed, "selected")
              [] client_state = "Waiting" -> decr(removed, "waiting")
              [] client_state = "Unknown" -> panic(removed)
              [] client_state = "DoneAndInactive" -> panic(removed)
              [] client_state = "Done" ->
                     incr(emit(removed, SetState(id, "DoneAndInactive")),
                          "done_and_inactive")
              [] client_state = "Ignored" -> decr(removed, "waiting")
    IN  maybe_start_selection(after)

\* mutant: the timeout of a DoneAndInactive client is only a removal
heartbeat_timeout_tolerates_inactive(self, id, client_state) ==
    LET removed == emit_event(self, Remove(id))
        after ==
            CASE client_state = "Selected" -> decr(removed, "selected")
              [] client_state = "Waiting" -> decr(removed, "waiting")
              [] client_state = "Unknown" -> panic(removed)
              [] client_state = "DoneAndInactive" -> removed
              [] client_state = "Done" ->
                     incr(emit(removed, SetState(id, "DoneAndInactive")),
                          "done_and_inactive")
              [] client_state = "Ignored" -> decr(removed, "ignored")
    IN  maybe_start_selection(after)

\* mutant: the timeout of a Done client moves it from done to done_and_inactive
heartbeat_timeout_decrements_done(self, id, client_state) ==
    LET removed == emit_event(self, Remove(id))
        after ==
            CASE client_state = "Selected" -> decr(removed, "selected")
              [] client_state = "Waiting" -> decr(removed, "waiting")
              [] client_state = "Unknown" -> panic(removed)
              [] client_state = "DoneAndInactive" -> panic(removed)
              [] client_state = "Done" ->
                     incr(decr(emit(removed, SetState(id, "DoneAndInactive")), "done"),
                          "done_and_inactive")
              [] client_state = "Ignored" -> decr(removed, "ignored")
    IN  maybe_start_selection(after)

heartbeat_timeout(self, id, client_state) ==
    LET removed == emit_event(self, Remove(id))
        after ==
            CASE client_state = "Selected" -> decr(removed, "selected")
              [] client_state = "Waiting" -> decr(removed, "waiting")
              [] client_state = "Unknown" -> panic(removed)
              [] client_state = "DoneAndInactive" -> panic(removed)
              [] client_state = "Done" ->
                     incr(emit(removed, SetState(id, "DoneAndInactive")),
                          "done_and_inactive")
              [] client_state = "Ignored" -> decr(removed, "ignored")
    IN  maybe_start_selection(after)

\* mutant: the state of the client is matched before is_training_complete
heartbeat_matches_state_first(self, id, client_state) ==
    CASE client_state \in {"Unknown", "DoneAndInactive"} ->
             [self |-> self, response |-> Reply("Reject", 0)]
      [] self.is_training_complete ->
             [self |-> emit_event(self, ResetHeartBeat(id)),
              response |-> Reply("Finish", 0)]
      [] client_state \in {"Ignored", "Waiting", "Done"} ->
             [self |-> emit_event(self, ResetHeartBeat(id)),
              response |-> Reply("StandBy", 0)]
      [] client_state = "Selected" ->
             [self |-> emit_event(self, ResetHeartBeat(id)),
              response |-> Reply("Round", self.current_round)]

\* mutant: the heartbeat of a DoneAndInactive client is taken like that of a
\* Done client
heartbeat_resets_inactive(self, id, client_state) ==
    IF self.is_training_complete
    THEN [self |-> emit_event(self, ResetHeartBeat(id)), response |-> Reply("Finish", 0)]
    ELSE CASE client_state = "Unknown" -> [self |-> self, response |-> Reply("Reject", 0)]
           [] client_state \in {"Ignored", "Waiting", "Done", "DoneAndInactive"} ->
                  [self |-> emit_event(self, ResetHeartBeat(id)),
                   response |-> Reply("StandBy", 0)]
           [] client_state = "Selected" ->
                  [self |-> emit_event(self, ResetHeartBeat(id)),
                   response |-> Reply("Round", self.current_round)]

\* mutant: heartbeat ends by re-evaluating the selection, as rendez_vous does
heartbeat_starts_selection(self, id, client_state) ==
    IF self.is_training_complete
    THEN [self |-> emit_event(self, ResetHeartBeat(id)), response |-> Reply("Finish", 0)]
    ELSE CASE client_state = "Unknown" -> [self |-> self, response |-> Reply("Reject", 0)]
           [] client_state = "DoneAndInactive" ->
                  [self |-> self, response |-> Reply("Reject", 0)]
           [] client_state \in {"Ignored", "Waiting", "Done"} ->
                  [self |-> maybe_start_selection(emit_event(self, ResetHeartBeat(id))),
                   response |-> Reply("StandBy", 0)]
           [] client_state = "Selected" ->
                  [self |-> maybe_start_selection(emit_event(self, ResetHeartBeat(id))),
                   response |-> Reply("Round", self.current_round)]

heartbeat(self, id, client_state) ==
    IF self.is_training_complete
    THEN [self |-> emit_event(self, ResetHeartBeat(id)), response |-> Reply("Finish", 0)]
    ELSE CASE client_state = "Unknown" -> [self |-> self, response |-> Reply("Reject", 0)]
           [] client_state = "DoneAndInactive" ->
                  [self |-> self, response |-> Reply("Reject", 0)]
           [] client_state \in {"Ignored", "Waiting", "Done"} ->
                  [self |-> emit_event(self, ResetHeartBeat(id)),
                   response |-> Reply("StandBy", 0)]
           [] client_state = "Selected" ->
                  [self |-> emit_event(self, ResetHeartBeat(id)),
                   response |-> Reply("Round", self.current_round)]

\* mutant: is_training_complete is not looked at
start_training_ignores_complete(self, client_state) ==
    IF client_state = "Selected"
    THEN Reply("Accept", 0)
    ELSE Reply("Reject", 0)

start_training(self, client_state) ==
    IF client_state = "Selected" /\ ~self.is_training_complete
    THEN Reply("Accept", 0)
    ELSE Reply("Reject", 0)

\* mutant: the end of a round forgets to zero ignored
reset_counters_keeps_ignored(self) ==
    LET c == self.counters
    IN  [self EXCEPT !.counters =
            [c EXCEPT !.waiting = c.waiting + c.done + c.ignored,
                      !.done_and_inactive = 0,
                      !.done = 0]]

\* the reset of the counters at the end of a round (end_training)
reset_counters(self) ==
    LET c == self.counters
    IN  [self EXCEPT !.counters =
            [c EXCEPT !.waiting = c.waiting + c.done + c.ignored,
                      !.done_and_inactive = 0,
                      !.done = 0,
                      !.ignored = 0]]

\* mutant: the end of the round increments current_round
end_training_increments_round(self, id, success, client_state) ==
    IF self.is_training_complete \/ self.waiting_for_aggregation THEN self
    ELSE IF client_state # "Selected" THEN self
    ELSE
    LET dec == decr(self, "selected")
        after ==
            IF success
            THEN LET done == incr(emit(dec, SetState(id, "Done")), "done")
                 IN  IF ~done.panicked /\ is_end_of_round(done)
                     THEN reset_counters(
                              emit_event(
                                  [emit_event(done, RunAggregation)
                                      EXCEPT !.waiting_for_aggregation = TRUE,
                                             !.current_round = @ + 1],
                                  ResetAll))
                     ELSE done
            ELSE incr(emit(dec, SetState(id, "Ignored")), "ignored")
    IN  maybe_start_selection(after)

\* mutant: waiting_for_aggregation is not looked at
end_training_during_aggregation(self, id, success, client_state) ==
    IF self.is_training_complete THEN self
    ELSE IF client_state # "Selected" THEN self
    ELSE
    LET dec == decr(self, "selected")
        after ==
            IF success
            THEN LET done == incr(emit(dec, SetState(id, "Done")), "done")
                 IN  IF ~done.panicked /\ is_end_of_round(done)
                     THEN reset_counters(
                              emit_event(
                                  [emit_event(done, RunAggregation)
                                      EXCEPT !.waiting_for_aggregation = TRUE],
                                  ResetAll))
                     ELSE done
            ELSE incr(emit(dec, SetState(id, "Ignored")), "ignored")
    IN  maybe_start_selection(after)

\* mutant: at the end of the round ResetAll is emitted before RunAggregation
end_training_resets_first(self, id, success, client_state) ==
    IF self.is_training_complete \/ self.waiting_for_aggregation THEN self
    ELSE IF client_state # "Selected" THEN self
    ELSE
    LET dec == decr(self, "selected")
        after ==
            IF success
            THEN LET done == incr(emit(dec, SetState(id, "Done")), "done")
                 IN  IF ~done.panicked /\ is_end_of_round(done)
                     THEN reset_counters(
                              emit_event(
                                  [emit_event(done, ResetAll)
                                      EXCEPT !.waiting_for_aggregation = TRUE],
                                  RunAggregation))
                     ELSE done
            ELSE incr(emit(dec, SetState(id, "Ignored")), "ignored")
    IN  maybe_start_selection(after)

end_training(self, id, success, client_state) ==
    IF self.is_training_complete \/ self.waiting_for_aggregation THEN self
    ELSE IF client_state # "Selected" THEN self
    ELSE
    LET dec == decr(self, "selected")
        after ==
            IF success
            THEN LET done == incr(emit(dec, SetState(id, "Done")), "done")
                 IN  IF ~done.panicked /\ is_end_of_round(done)
                     THEN reset_counters(
                              emit_event(
                                  [emit_event(done, RunAggregation)
                                      EXCEPT !.waiting_for_aggregation = TRUE],
                                  ResetAll))
                     ELSE done
            ELSE incr(emit(dec, SetState(id, "Ignored")), "ignored")
    IN  maybe_start_selection(after)

\* mutant: EndRound carries the round index after the increment
end_aggregation_emits_after_increment(self, success) ==
    IF ~self.waiting_for_aggregation THEN self
    ELSE
    LET cleared == [self EXCEPT !.waiting_for_aggregation = FALSE]
        ended ==
            IF success
            THEN emit_event([cleared EXCEPT !.current_round = @ + 1],
                            EndRound(cleared.current_round + 1))
            ELSE cleared
    IN  IF ended.current_round = ended.settings.rounds
        THEN [ended EXCEPT !.is_training_complete = TRUE]
        ELSE maybe_start_selection(ended)

\* mutant: the last round completes the training whatever the aggregation's outcome
end_aggregation_completes_on_failure(self, success) ==
    IF ~self.waiting_for_aggregation THEN self
    ELSE
    LET cleared == [self EXCEPT !.waiting_for_aggregation = FALSE]
        ended ==
            IF success
            THEN [emit_event(cleared, EndRound(cleared.current_round))
                     EXCEPT !.current_round = @ + 1]
            ELSE cleared
    IN  IF cleared.current_round + 1 = ended.settings.rounds
        THEN [ended EXCEPT !.is_training_complete = TRUE]
        ELSE maybe_start_selection(ended)

\* mutant: a failed aggregation leaves waiting_for_aggregation set
end_aggregation_keeps_waiting_on_failure(self, success) ==
    IF ~self.waiting_for_aggregation THEN self
    ELSE
    LET cleared == [self EXCEPT !.waiting_for_aggregation = ~success]
        ended ==
            IF success
            THEN [emit_event(cleared, EndRound(cleared.current_round))
                     EXCEPT !.current_round = @ + 1]
            ELSE cleared
    IN  IF ended.current_round = ended.settings.rounds
        THEN [ended EXCEPT !.is_training_complete = TRUE]
        ELSE maybe_start_selection(ended)

\* mutant: the selection is re-evaluated after a successful aggregation only
end_aggregation_stalls_on_failure(self, success) ==
    IF ~self.waiting_for_aggregation THEN self
    ELSE
    LET cleared == [self EXCEPT !.waiting_for_aggregation = FALSE]
        ended ==
            IF success
            THEN [emit_event(cleared, EndRound(cleared.current_round))
                     EXCEPT !.current_round = @ + 1]
            ELSE cleared
    IN  IF ended.current_round = ended.settings.rounds
        THEN [ended EXCEPT !.is_training_complete = TRUE]
        ELSE IF success THEN maybe_start_selection(ended) ELSE ended

\* mutant: waiting_for_aggregation is not looked at
end_aggregation_unguarded(self, success) ==
    LET cleared == [self EXCEPT !.waiting_for_aggregation = FALSE]
        ended ==
            IF success
            THEN [emit_event(cleared, EndRound(cleared.current_round))
                     EXCEPT !.current_round = @ + 1]
            ELSE cleared
    IN  IF ended.current_round = ended.settings.rounds
        THEN [ended EXCEPT !.is_training_complete = TRUE]
        ELSE maybe_start_selection(ended)

end_aggregation(self, success) ==
    IF ~self.waiting_for_aggregation THEN self
    ELSE
    LET cleared == [self EXCEPT !.waiting_for_aggregation = FALSE]
        ended ==
            IF success
            THEN [emit_event(cleared, EndRound(cleared.current_round))
                     EXCEPT !.current_round = @ + 1]
            ELSE cleared
    IN  IF ended.current_round = ended.settings.rounds
        THEN [ended EXCEPT !.is_training_complete = TRUE]
        ELSE maybe_start_selection(ended)

\* the driver after the call, and the Option<Event> returned
next_event(self) ==
    IF self.events = <<>> THEN [self |-> self, event |-> None]
    ELSE [self |-> [self EXCEPT !.events = Tail(@)], event |-> Some(Head(self.events))]

\* ------------------------------------------------ the host and its registry
\* what an event does to the registry
apply_event(reg, event) ==
    CASE event.type = "Accept" -> [reg EXCEPT ![event.id] = "Waiting"]
      [] event.type = "Remove" -> [reg EXCEPT ![event.id] = "Unknown"]
      [] event.type = "SetState" -> [reg EXCEPT ![event.id] = event.state]
      [] event.type = "ResetAll" ->
             [id \in Clients |->
                 IF reg[id] \in {"Unknown", "DoneAndInactive"} THEN "Unknown"
                 ELSE "Waiting"]
      [] OTHER -> reg

Range(seq) == {seq[i] : i \in 1..Len(seq)}

\* the clients the registry holds in a state
InState(state) == {id \in Clients : registry[id] = state}

\* the events a call appended
Emitted(before, after) == SubSeq(after.events, Len(before.events) + 1, Len(after.events))

RECURSIVE EndRoundArgs(_)
EndRoundArgs(seq) ==
    IF seq = <<>> THEN <<>>
    ELSE IF Head(seq).type = "EndRound"
         THEN <<Head(seq).n>> \o EndRoundArgs(Tail(seq))
         ELSE EndRoundArgs(Tail(seq))

\* the candidate lists a selector can offer: sequences of distinct clients
CandidateIds ==
    {s \in UNION {[1..n -> Clients] : n \in 0..Cardinality(Clients)} :
        \A i, j \in 1..Len(s) : i # j => s[i] # s[j]}

\* the host calls an entry point once the queue is drained
Call(after, response, is_end_aggregation) ==
    /\ ~protocol.panicked
    /\ protocol.events = <<>>
    /\ protocol' = after
    /\ reply' = response
    /\ LET emitted == Emitted(protocol, after)
       IN  /\ selected_in_round' =
                 IF ResetAll \in Range(emitted) THEN {}
                 ELSE selected_in_round \cup
                      {id \in Clients : SetState(id, "Selected") \in Range(emitted)}
           /\ end_rounds' = end_rounds \o EndRoundArgs(emitted)
           /\ agg_outstanding' =
                 IF RunAggregation \in Range(emitted) THEN TRUE
                 ELSE IF is_end_aggregation THEN FALSE
                 ELSE agg_outstanding
    /\ UNCHANGED <<overflow_checks, registry, call, appended, returned>>

RendezVous(id) ==
    /\ LET r == rendez_vous(protocol, id, registry[id])
       IN  Call(r.self, r.response, FALSE)
    /\ UNCHANGED failed_aggregations

HeartBeatTimeout(id) ==
    /\ registry[id] \notin {"Unknown", "DoneAndInactive"}
    /\ Call(heartbeat_timeout(protocol, id, registry[id]), NoReply, FALSE)
    /\ UNCHANGED failed_aggregations

HeartBeat(id) ==
    /\ LET r == heartbeat(protocol, id, registry[id])
       IN  Call(r.self, r.response, FALSE)
    /\ UNCHANGED failed_aggregations

StartTraining(id) ==
    /\ Call(protocol, start_training(protocol, registry[id]), FALSE)
    /\ UNCHANGED failed_aggregations

Select(ids) ==
    /\ Call(select(protocol, [i \in 1..Len(ids) |-> [id |-> ids[i], state |-> registry[ids[i]]]]),
            NoReply, FALSE)
    /\ UNCHANGED failed_aggregations

EndTraining(id, success) ==
    /\ Call(end_training(protocol, id, success, registry[id]), NoReply, FALSE)
    /\ UNCHANGED failed_aggregations

EndAggregation(success) ==
    /\ success \/ failed_aggregations < MaxFailedAggregations
    /\ Call(end_aggregation(protocol, success), NoReply, TRUE)
    /\ failed_aggregations' = IF success THEN failed_aggregations ELSE failed_aggregations + 1

\* Protocol::next_event, and the host applying the event
NextEvent ==
    /\ ~protocol.panicked
    /\ protocol.events # <<>>
    /\ protocol' = [protocol EXCEPT !.events = Tail(@)]
    /\ registry' = apply_event(registry, Head(protocol.events))
    /\ reply' = NoReply
    /\ UNCHANGED <<overflow_checks, selected_in_round, end_rounds,
                   agg_outstanding, failed_aggregations, call, appended, returned>>

Settings ==
    [rounds : 1..MaxRounds, participants_ratio : Ratios, min_clients : 1..MaxMinClients]

Init ==
    /\ overflow_checks \in BOOLEAN
    /\ \E settings \in Settings : protocol = Protocol_new(settings)
    /\ registry = [id \in Clients |-> "Unknown"]
    /\ reply = NoReply
    /\ selected_in_round = {}
    /\ end_rounds = <<>>
    /\ agg_outstanding = FALSE
    /\ failed_aggregations = 0
    /\ call = NoCall
    /\ appended = <<>>
    /\ returned = <<>>

Next ==
    \/ \E id \in Clients : RendezVous(id)
    \/ \E id \in Clients : HeartBeatTimeout(id)
    \/ \E id \in Clients : HeartBeat(id)
    \/ \E id \in Clients : StartTraining(id)
    \/ \E ids \in CandidateIds : Select(ids)
    \/ \E id \in Clients, success \in BOOLEAN : EndTraining(id, success)
    \/ \E success \in BOOLEAN : EndAggregation(success)
    \/ NextEvent

Spec == Init /\ [][Next]_vars

\* The host drains the queue, and every client that can rendez-vous or time
\* out again and again does so: the population keeps changing for ever.
Fairness ==
    /\ WF_vars(NextEvent)
    /\ \A id \in Clients : SF_vars(RendezVous(id))
    /\ \A id \in Clients : SF_vars(HeartBeatTimeout(id))

\* the settings of get_default_fl_settings, in a build with overflow checks
FairInit ==
    /\ Init
    /\ overflow_checks
    /\ protocol.settings = [rounds |-> 2, participants_ratio |-> <<1, 1>>, min_clients |-> 1]

FairSpec == FairInit /\ [][Next]_vars /\ Fairness

\* ------------------------------------------------------- a stale timer
\* a host bug: the timer of a client that has no heartbeat fires
HeartBeatTimeoutStale(id) ==
    /\ registry[id] \in {"Unknown", "DoneAndInactive"}
    /\ Call(heartbeat_timeout(protocol, id, registry[id]), NoReply, FALSE)
    /\ UNCHANGED failed_aggregations

StaleTimerNext ==
    \/ Next
    \/ \E id \in Clients : HeartBeatTimeoutStale(id)

StaleTimerSpec == Init /\ [][StaleTimerNext]_vars

\* ------------------------------------------------------ a full campaign
\* The campaign of test_case_1 for any settings: clients rendez-vous and never
\* time out, the selector offers every Waiting client, every Selected client
\* ends its training with success and every aggregation succeeds.

\* a client that has not joined sends its rendez-vous request
Join(id) ==
    /\ registry[id] = "Unknown"
    /\ RendezVous(id)

\* the selector offers all the Waiting clients, in some order
OfferWaiting(ids) ==
    /\ ids # <<>>
    /\ Range(ids) = InState("Waiting")
    /\ Select(ids)

\* a Selected client ends its training with success
Train(id) ==
    /\ registry[id] = "Selected"
    /\ EndTraining(id, TRUE)

\* the aggregator answers RunAggregation with success
Aggregate ==
    /\ agg_outstanding
    /\ EndAggregation(TRUE)

\* protocol.start_training(ClientState::Selected)
TryStartTraining ==
    /\ Call(protocol, start_training(protocol, "Selected"), FALSE)
    /\ UNCHANGED failed_aggregations

\* enough clients exist to reach min_clients
CampaignInit ==
    /\ Init
    /\ protocol.settings.min_clients <= Cardinality(Clients)

CampaignNext ==
    \/ \E id \in Clients : Join(id)
    \/ \E ids \in CandidateIds : OfferWaiting(ids)
    \/ \E id \in Clients : Train(id)
    \/ Aggregate
    \/ TryStartTraining
    \/ NextEvent

\* every party does its part as long as it can
CampaignFairness ==
    /\ WF_vars(NextEvent)
    /\ WF_vars(\E id \in Clients : Join(id))
    /\ WF_vars(\E ids \in CandidateIds : OfferWaiting(ids))
    /\ WF_vars(\E id \in Clients : Train(id))
    /\ WF_vars(Aggregate)

CampaignSpec == CampaignInit /\ [][CampaignNext]_vars /\ CampaignFairness

\* ------------------------------------------- the driver in isolation
\* The driver exercised as its unit tests do: counters, flags and round are
\* preloaded, one entry point is called with any prior state, and the events
\* are popped with next_event.  The preloaded states are those a driver can
\* be in: is_training_complete exactly in the last round, never together
\* with waiting_for_aggregation, and only waiting clients outside a round.
DriverStates ==
    {self \in [ settings : Settings,
                counters : [DOMAIN Counters_new -> 0..MaxCounter],
                is_training_complete : BOOLEAN,
                waiting_for_aggregation : BOOLEAN,
                current_round : 0..MaxRounds,
                events : {<<>>},
                panicked : {FALSE} ] :
        /\ self.current_round <= self.settings.rounds
        /\ self.is_training_complete = (self.current_round = self.settings.rounds)
        /\ ~(self.is_training_complete /\ self.waiting_for_aggregation)
        /\ self.is_training_complete \/ self.waiting_for_aggregation =>
               /\ self.counters.selected = 0
               /\ self.counters.done = 0
               /\ self.counters.done_and_inactive = 0
               /\ self.counters.ignored = 0}

\* the candidate lists of select: (id, state) pairs of distinct clients, each
\* Waiting or stale (select tells Waiting from every other state only)
Candidates ==
    {c \in UNION {[1..n -> [id : Clients, state : {"Waiting", "Selected"}]] :
                     n \in 0..Cardinality(Clients)} :
        \A i, j \in 1..Len(c) : i # j => c[i].id # c[j].id}

DriverInit ==
    /\ overflow_checks \in BOOLEAN
    /\ protocol \in DriverStates
    /\ registry = [id \in Clients |-> "Unknown"]
    /\ reply = NoReply
    /\ selected_in_round = {}
    /\ end_rounds = <<>>
    /\ agg_outstanding = FALSE
    /\ failed_aggregations = 0
    /\ call = NoCall
    /\ appended = <<>>
    /\ returned = <<>>

\* the one call of a test
Driver(after, response, c) ==
    /\ call = NoCall
    /\ protocol' = after
    /\ reply' = response
    /\ call' = c
    /\ UNCHANGED <<overflow_checks, registry, selected_in_round, end_rounds,
                   agg_outstanding, failed_aggregations, appended, returned>>

RendezVousWith(id, client_state) ==
    LET r == rendez_vous(protocol, id, client_state)
    IN  Driver(r.self, r.response, CallOf("rendez_vous", id, client_state, FALSE, <<>>))

HeartBeatTimeoutWith(id, client_state) ==
    Driver(heartbeat_timeout(protocol, id, client_state), NoReply,
           CallOf("heartbeat_timeout", id, client_state, FALSE, <<>>))

HeartBeatWith(id, client_state) ==
    LET r == heartbeat(protocol, id, client_state)
    IN  Driver(r.self, r.response, CallOf("heartbeat", id, client_state, FALSE, <<>>))

StartTrainingWith(client_state) ==
    Driver(protocol, start_training(protocol, client_state),
           CallOf("start_training", 0, client_state, FALSE, <<>>))

SelectWith(candidates) ==
    Driver(select(protocol, candidates), NoReply,
           CallOf("select", 0, "-", FALSE, candidates))

EndTrainingWith(id, success, client_state) ==
    Driver(end_training(protocol, id, success, client_state), NoReply,
           CallOf("end_training", id, client_state, success, <<>>))

EndAggregationWith(success) ==
    Driver(end_aggregation(protocol, success), NoReply,
           CallOf("end_aggregation", 0, "-", success, <<>>))

\* Protocol::next_event after the call
PopEvent ==
    /\ call # NoCall
    /\ ~protocol.panicked
    /\ protocol.events # <<>>
    /\ protocol' = [protocol EXCEPT !.events = Tail(@)]
    /\ UNCHANGED <<overflow_checks, registry, reply, selected_in_round, end_rounds,
                   agg_outstanding, failed_aggregations, call, appended, returned>>

DriverNext ==
    \/ \E id \in Clients, client_state \in ClientState : RendezVousWith(id, client_state)
    \/ \E id \in Clients, client_state \in ClientState :
          HeartBeatTimeoutWith(id, client_state)
    \/ \E id \in Clients, client_state \in ClientState : HeartBeatWith(id, client_state)
    \/ \E client_state \in ClientState : StartTrainingWith(client_state)
    \/ \E candidates \in Candidates : SelectWith(candidates)
    \/ \E id \in Clients, success \in BOOLEAN, client_state \in ClientState :
          EndTrainingWith(id, success, client_state)
    \/ \E success \in BOOLEAN : EndAggregationWith(success)
    \/ PopEvent

DriverSpec == DriverInit /\ [][DriverNext]_vars

\* ------------------------------------------- the selection policy alone
\* The selection policy applied to a preloaded driver: select is called with
\* an iterator that yields nothing, so that the call is the policy's
\* evaluation and the RunSelection it asks for.
PolicyStates ==
    {self \in [ settings : Settings,
                counters : [DOMAIN Counters_new -> 0..MaxPolicyCounter],
                is_training_complete : BOOLEAN,
                waiting_for_aggregation : BOOLEAN,
                current_round : 0..MaxRounds,
                events : {<<>>},
                panicked : {FALSE} ] :
        /\ self.current_round <= self.settings.rounds
        /\ self.is_training_complete = (self.current_round = self.settings.rounds)
        /\ ~(self.is_training_complete /\ self.waiting_for_aggregation)
        /\ self.is_training_complete \/ self.waiting_for_aggregation =>
               /\ self.counters.selected = 0
               /\ self.counters.done = 0
               /\ self.counters.done_and_inactive = 0
               /\ self.counters.ignored = 0}

PolicyInit ==
    /\ overflow_checks \in BOOLEAN
    /\ protocol \in PolicyStates
    /\ registry = [id \in Clients |-> "Unknown"]
    /\ reply = NoReply
    /\ selected_in_round = {}
    /\ end_rounds = <<>>
    /\ agg_outstanding = FALSE
    /\ failed_aggregations = 0
    /\ call = NoCall
    /\ appended = <<>>
    /\ returned = <<>>

\* protocol.select(vec![].into_iter())
SelectNobody == SelectWith(<<>>)

PolicyNext == SelectNobody \/ PopEvent

PolicySpec == PolicyInit /\ [][PolicyNext]_vars

\* ------------------------------------------------- the queue left to grow
\* The driver as the tests of the queue use it (e.g.
\* test_heartbeat_timeout_selected_participant): the caller makes its calls
\* with the state each client has after the events emitted so far, and calls
\* next_event whenever it likes, on an empty queue too.

RECURSIVE apply_events(_, _)
\* the registry once the events of seq are applied, in order
apply_events(reg, seq) ==
    IF seq = <<>> THEN reg
    ELSE apply_events(apply_event(reg, Head(seq)), Tail(seq))

\* an entry-point call made whatever the queue holds
Queued(after, response) ==
    /\ ~protocol.panicked
    /\ Len(appended) < MaxQueued
    /\ protocol' = after
    /\ reply' = response
    /\ registry' = apply_events(registry, Emitted(protocol, after))
    /\ appended' = appended \o Emitted(protocol, after)
    /\ UNCHANGED <<overflow_checks, selected_in_round, end_rounds, agg_outstanding,
                   failed_aggregations, call, returned>>

QueuedRendezVous(id) ==
    LET r == rendez_vous(protocol, id, registry[id])
    IN  Queued(r.self, r.response)

QueuedHeartBeatTimeout(id) ==
    /\ registry[id] \notin {"Unknown", "DoneAndInactive"}
    /\ Queued(heartbeat_timeout(protocol, id, registry[id]), NoReply)

QueuedHeartBeat(id) ==
    LET r == heartbeat(protocol, id, registry[id])
    IN  Queued(r.self, r.response)

QueuedStartTraining(id) ==
    Queued(protocol, start_training(protocol, registry[id]))

QueuedSelect(ids) ==
    Queued(select(protocol, [i \in 1..Len(ids) |-> [id |-> ids[i], state |-> registry[ids[i]]]]),
           NoReply)

QueuedEndTraining(id, success) ==
    Queued(end_training(protocol, id, success, registry[id]), NoReply)

QueuedEndAggregation(success) ==
    Queued(end_aggregation(protocol, success), NoReply)

\* a call of Protocol::next_event
QueuedNextEvent ==
    /\ ~protocol.panicked
    /\ Len(returned) < MaxReturned
    /\ LET r == next_event(protocol)
       IN  /\ protocol' = r.self
           /\ returned' = Append(returned, r.event)
    /\ reply' = NoReply
    /\ UNCHANGED <<overflow_checks, registry, selected_in_round, end_rounds,
                   agg_outstanding, failed_aggregations, call, appended>>

QueueNext ==
    \/ \E id \in Clients : QueuedRendezVous(id)
    \/ \E id \in Clients : QueuedHeartBeatTimeout(id)
    \/ \E id \in Clients : QueuedHeartBeat(id)
    \/ \E id \in Clients : QueuedStartTraining(id)
    \/ \E ids \in CandidateIds : QueuedSelect(ids)
    \/ \E id \in Clients, success \in BOOLEAN : QueuedEndTraining(id, success)
    \/ \E success \in BOOLEAN : QueuedEndAggregation(success)
    \/ QueuedNextEvent

\* a fresh driver for a campaign of one round (the queue does not look at the
\* settings)
QueueInit ==
    /\ Init
    /\ protocol.settings.rounds = 1

QueueSpec == QueueInit /\ [][QueueNext]_vars

\* ------------------------------------------------------- observations
Quiescent == ~protocol.panicked /\ protocol.events = <<>>

\* the events appended by the step, as a set
NewEvents == Range(Emitted(protocol, protocol'))

total_participants(self) ==
    self.counters.selected + self.counters.done + self.counters.done_and_inactive

\* ------------------------------------------------------------------ C1
\* C1: between entry-point calls, with a host that passes the registry state
\* and applies every event, each of the five counters equals the number of
\* registry clients in the corresponding state.
C1_CountersMatchRegistry ==
    Quiescent =>
        /\ protocol.counters.waiting = Cardinality(InState("Waiting"))
        /\ protocol.counters.selected = Cardinality(InState("Selected"))
        /\ protocol.counters.done = Cardinality(InState("Done"))
        /\ protocol.counters.done_and_inactive = Cardinality(InState("DoneAndInactive"))
        /\ protocol.counters.ignored = Cardinality(InState("Ignored"))


\* ------------------------------------------------------------------ C2
\* a call for a Selected client (heartbeat_timeout, rendez_vous or a failed
\* end_training) has just brought selected to 0 in a round in which a client
\* has finished training
SelectedDropped ==
    /\ ~protocol.panicked
    /\ protocol.events # <<>>
    /\ \E id \in Clients :
          /\ registry[id] = "Selected"
          /\ Head(protocol.events) \in {Remove(id), SetState(id, "Ignored")}
    /\ protocol.counters.selected = 0
    /\ protocol.counters.done >= 1
    /\ ~protocol.waiting_for_aggregation
    /\ ~protocol.is_training_complete

RoundProgresses ==
    \E e \in Range(protocol.events) : e.type \in {"RunSelection", "RunAggregation"}

\* C2: when a Selected client drops and brings selected to 0 in a round that
\* is neither aggregating nor complete and in which a client has finished
\* training, the driver later emits RunSelection or RunAggregation.
C2_DropDoesNotStall == SelectedDropped ~> RoundProgresses

\* ------------------------------------------------------------------ C3
\* C3: between two consecutive ResetAll events no client id receives
\* SetState(id, Selected) more than once.
C3_NotSelectedTwiceInRound ==
    [][\A id \in Clients :
          SetState(id, "Selected") \in NewEvents => id \notin selected_in_round]_vars

\* ------------------------------------------------------------------ C4
\* C4: every RunSelection(n) emitted has 1 <= n <= waiting at the moment of
\* emission, and the subtraction target - participants never underflows.
C4_RunSelectionWithinWaiting ==
    /\ ~protocol.panicked
    /\ \A i \in 1..Len(protocol.events) :
          protocol.events[i].type = "RunSelection" =>
              /\ i = Len(protocol.events)
              /\ protocol.events[i].n >= 1
              /\ protocol.events[i].n <= protocol.counters.waiting

\* a RunSelection for fewer clients than are waiting, under a fractional ratio
C4_Witness ==
    /\ protocol.settings.participants_ratio = <<1, 2>>
    /\ protocol.events # <<>>
    /\ protocol.events[Len(protocol.events)].type = "RunSelection"
    /\ protocol.events[Len(protocol.events)].n >= 1
    /\ protocol.events[Len(protocol.events)].n < protocol.counters.waiting

\* ------------------------------------------------------------------ C5
\* C5: with a host that passes the registry state and drains the events, no
\* call decrements a counter whose value is 0: no call panics on overflow and
\* no counter wraps.
C5_NoCounterUnderflow ==
    /\ ~protocol.panicked
    /\ protocol.counters.waiting >= 0
    /\ protocol.counters.selected >= 0
    /\ protocol.counters.done >= 0
    /\ protocol.counters.done_and_inactive >= 0
    /\ protocol.counters.ignored >= 0

\* heartbeat_timeout of the last Ignored client has brought ignored to 0
C5_Witness ==
    /\ protocol.events # <<>>
    /\ Head(protocol.events).type = "Remove"
    /\ registry[Head(protocol.events).id] = "Ignored"
    /\ protocol.counters.ignored = 0
    /\ protocol.counters.waiting = 0
    /\ protocol.counters.selected = 0

\* ------------------------------------------------------------------ C6
EndRoundsInOrder ==
    \A i \in 1..Len(end_rounds) :
        end_rounds[i] = i - 1 /\ end_rounds[i] < protocol.settings.rounds

EndRoundOnlyByAggregation ==
    \A e \in NewEvents :
        e.type = "EndRound" =>
            /\ protocol.waiting_for_aggregation
            /\ EndAggregation(TRUE)
            /\ e.n = protocol.current_round
            /\ protocol'.current_round = e.n + 1

\* C6: EndRound(r) is emitted only by an end_aggregation(true) call made while
\* waiting_for_aggregation is true, r is the round index before the
\* increment, and the arguments of the EndRound events are 0, 1, 2, ... in
\* order, each below settings.rounds.
C6_EndRoundSequence == []EndRoundsInOrder /\ [][EndRoundOnlyByAggregation]_vars

\* both rounds of a two-round campaign have ended
C6_Witness == end_rounds = <<0, 1>>

\* ------------------------------------------------------------------ C7
RoundStep ==
    /\ protocol'.current_round >= protocol.current_round
    /\ protocol'.current_round # protocol.current_round =>
           /\ protocol'.current_round = protocol.current_round + 1
           /\ protocol.waiting_for_aggregation
           /\ EndAggregation(TRUE)

\* C7: current_round never decreases, changes only by +1 in an accepted
\* end_aggregation(true) (so not in end_training), and is at most
\* settings.rounds.
C7_RoundMonotone ==
    [](protocol.current_round <= protocol.settings.rounds) /\ [][RoundStep]_vars

\* the end_training that ends round 1 has returned and the round is still 1
C7_Witness ==
    /\ protocol.current_round = 1
    /\ protocol.waiting_for_aggregation
    /\ ResetAll \in Range(protocol.events)

\* ------------------------------------------------------------------ C8
CompleteIffLastRound ==
    protocol.is_training_complete <=>
        protocol.current_round = protocol.settings.rounds

CompleteOnlyByAggregation ==
    ~protocol.is_training_complete /\ protocol'.is_training_complete =>
        protocol.waiting_for_aggregation /\ EndAggregation(TRUE)

\* C8: is_training_complete is true exactly when current_round equals
\* settings.rounds, and it becomes true only in an end_aggregation(true) step.
C8_CompleteIffRounds == []CompleteIffLastRound /\ [][CompleteOnlyByAggregation]_vars

\* rounds = 1: complete right after the first successful aggregation, which
\* followed a failed one
C8_Witness ==
    /\ protocol.settings.rounds = 1
    /\ protocol.is_training_complete
    /\ failed_aggregations = 1
    /\ protocol.events = <<EndRound(0)>>

\* ------------------------------------------------------------------ C9
CompleteStep ==
    protocol.is_training_complete =>
        /\ protocol'.is_training_complete
        /\ protocol'.current_round = protocol.current_round
        /\ protocol'.waiting_for_aggregation = protocol.waiting_for_aggregation
        /\ \A e \in NewEvents :
              e.type \notin {"RunSelection", "RunAggregation", "ResetAll", "EndRound"}

\* C9: once is_training_complete is true it stays true, current_round and
\* waiting_for_aggregation never change, and no RunSelection, RunAggregation,
\* ResetAll or EndRound is emitted.
C9_CompleteAbsorbing == [][CompleteStep]_vars

\* a heartbeat_timeout call made after the campaign completed
C9_Witness ==
    /\ protocol.is_training_complete
    /\ protocol.events # <<>>
    /\ Head(protocol.events).type = "Remove"

\* ----------------------------------------------------------------- C10
OneAggregationStep == RunAggregation \in NewEvents => ~protocol.waiting_for_aggregation

\* C10: waiting_for_aggregation is true exactly between the emission of
\* RunAggregation and the next end_aggregation call, RunAggregation is never
\* emitted while it is true, and it is never true together with
\* is_training_complete.
C10_WaitingIffOutstanding ==
    /\ [](protocol.waiting_for_aggregation = agg_outstanding)
    /\ [](~(protocol.waiting_for_aggregation /\ protocol.is_training_complete))
    /\ [][OneAggregationStep]_vars

\* a second aggregation is outstanding after the first one failed
C10_Witness ==
    /\ protocol.waiting_for_aggregation
    /\ agg_outstanding
    /\ failed_aggregations = 1

\* ----------------------------------------------------------------- C11
FourCountersZero(self) ==
    /\ self.counters.selected = 0
    /\ self.counters.done = 0
    /\ self.counters.done_and_inactive = 0
    /\ self.counters.ignored = 0

ResetAllStep ==
    ResetAll \in NewEvents => FourCountersZero(protocol') /\ agg_outstanding'

\* C11: when the end_training call that emits ResetAll returns, selected, done,
\* done_and_inactive and ignored are 0, and with a host that passes the
\* registry state they stay 0 in every state up to the next end_aggregation
\* call.
C11_ResetAllZeroesCounters ==
    /\ [](agg_outstanding => FourCountersZero(protocol))
    /\ [][ResetAllStep]_vars

\* the end_training that ends the round has returned while the registry still
\* holds an Ignored client: ignored was 1 when the call was made
C11_Witness ==
    /\ agg_outstanding
    /\ ResetAll \in Range(protocol.events)
    /\ InState("Ignored") # {}
    /\ FourCountersZero(protocol)

\* ----------------------------------------------------------------- C12
\* the host applies ResetAll
ResetAllApplied ==
    /\ protocol.events # <<>>
    /\ Head(protocol.events) = ResetAll
    /\ NextEvent

RoundCompleteStep ==
    ResetAllApplied =>
        /\ \A id \in Clients : registry'[id] \in {"Waiting", "Unknown"}
        /\ protocol'.counters.waiting =
               Cardinality({id \in Clients : registry'[id] = "Waiting"})

\* C12: once the host has applied the ResetAll of the end_training that ended
\* the round, every client the registry holds is Waiting and the waiting
\* counter equals their number.
C12_WaitingIsRegistryAfterRound == [][RoundCompleteStep]_vars

\* ----------------------------------------------------------------- C13
\* the step is the call of the entry point op on the driver in isolation
Calls(op) == call = NoCall /\ call'.op = op

EndTrainingIgnored ==
    /\ Calls("end_training")
    /\ \/ protocol.waiting_for_aggregation
       \/ protocol.is_training_complete
       \/ call'.state # "Selected"
    => protocol' = protocol

\* C13: end_training(id, success, prior_state) leaves the counters, the round,
\* both flags and the event queue as they were whenever waiting_for_aggregation
\* is true, or is_training_complete is true, or prior_state is not Selected,
\* for both values of success.
C13_EndTrainingNoOp == [][EndTrainingIgnored]_vars

\* a successful end_training of a Selected client, made during the
\* aggregation, has returned
C13_Witness ==
    /\ call.op = "end_training"
    /\ call.state = "Selected"
    /\ call.success
    /\ protocol.waiting_for_aggregation
    /\ protocol.events = <<>>

\* ----------------------------------------------------------------- C14
RendezVousRejected ==
    Calls("rendez_vous") /\ protocol.is_training_complete =>
        /\ reply'.kind = "Reject"
        /\ protocol' = protocol

\* C14: once is_training_complete is true, rendez_vous(id, prior_state) returns
\* Reject for each of the six prior states, emits no event and changes no
\* counter.
C14_RendezVousRejectAfterComplete == [][RendezVousRejected]_vars

\* the rendez_vous of a Selected client was rejected by a complete campaign
C14_Witness ==
    /\ call.op = "rendez_vous"
    /\ call.state = "Selected"
    /\ protocol.is_training_complete
    /\ reply.kind = "Reject"
    /\ protocol.events = <<>>

\* ----------------------------------------------------------------- C15
HeartBeatFinished ==
    Calls("heartbeat") /\ protocol.is_training_complete =>
        /\ reply'.kind = "Finish"
        /\ Emitted(protocol, protocol') = <<ResetHeartBeat(call'.id)>>

\* C15: once is_training_complete is true, heartbeat(id, prior_state) returns
\* Finish and appends exactly one event, ResetHeartBeat(id), for each of the
\* six prior states, Unknown and DoneAndInactive included.
C15_HeartBeatFinishAfterComplete == [][HeartBeatFinished]_vars

\* the heartbeat of an Unknown client got Finish from a complete campaign
C15_Witness ==
    /\ call.op = "heartbeat"
    /\ call.state = "Unknown"
    /\ protocol.is_training_complete
    /\ reply.kind = "Finish"
    /\ protocol.events = <<ResetHeartBeat(call.id)>>

\* ----------------------------------------------------------------- C16
\* the driver once the host has drained the queue (none of the events that
\* rendez_vous(id, Waiting) appends changes the registry state of a client)
drained(self) == [self EXCEPT !.events = <<>>]

UnitRatio == protocol.settings.participants_ratio = <<1, 1>>

\* the step appends a RunSelection event
SelectionFires == \E e \in NewEvents : e.type = "RunSelection"

\* the step is a call that always ends by re-evaluating the selection
Reevaluates ==
    \/ \E id \in Clients : RendezVous(id) /\ ~protocol.is_training_complete
    \/ \E id \in Clients : HeartBeatTimeout(id)
    \/ \E ids \in CandidateIds : Select(ids)

SelectionAtMinClients ==
    UnitRatio =>
        /\ \A e \in NewEvents :
              e.type = "RunSelection" =>
                  /\ protocol'.counters.waiting = protocol.settings.min_clients
                  /\ e.n = protocol.settings.min_clients
        /\ protocol'.counters.waiting = protocol.settings.min_clients /\ Reevaluates
               => SelectionFires

\* C17: with participants_ratio = 1.0 and min_clients = n, a RunSelection event
\* is emitted if and only if the waiting counter equals n, and its argument
\* is n.
C17_SelectionExactlyAtMinClients == [][SelectionAtMinClients]_vars

\* the driver is open and its participants are below n <= participants + waiting
SelectionDue(self) ==
    /\ ~self.is_training_complete
    /\ ~self.waiting_for_aggregation
    /\ total_participants(self) < self.settings.min_clients
    /\ total_participants(self) + self.counters.waiting >= self.settings.min_clients

SelectionWhenDue ==
    UnitRatio =>
        /\ \A e \in NewEvents :
              e.type = "RunSelection" =>
                  /\ SelectionDue(protocol')
                  /\ e.n = protocol'.counters.waiting
        /\ SelectionDue(protocol') /\ Reevaluates => SelectionFires

\* C17 as amended: with participants_ratio = 1.0 and min_clients = n, a
\* RunSelection event is emitted only when the driver is neither complete nor
\* aggregating and participants < n <= participants + waiting, its argument
\* is the waiting counter (all the waiting clients), and every rendez_vous,
\* heartbeat_timeout and select call that returns in such a state emits it.
C17_SelectionWhenDue == [][SelectionWhenDue]_vars

\* min_clients = 1 and a second client has arrived before the selection:
\* RunSelection(2) with waiting = 2
C17_Witness ==
    /\ UnitRatio
    /\ protocol.settings.min_clients = 1
    /\ protocol.counters.waiting = 2
    /\ protocol.events # <<>>
    /\ protocol.events[Len(protocol.events)] = RunSelection(2)

\* ----------------------------------------------------------------- C18
RejectAfterCampaign ==
    TryStartTraining /\ protocol.is_training_complete => reply'.kind = "Reject"

\* C18: in a campaign with rounds >= 1, participants_ratio in (0, 1] and
\* min_clients >= 1 in which at least min_clients clients rendez-vous and never
\* time out, every RunSelection is answered by a select with the Waiting
\* clients, every selected client ends its training with success and every
\* RunAggregation is answered by end_aggregation(true), is_training_complete
\* eventually becomes true, after exactly settings.rounds EndRound events, and
\* every later start_training(Selected) returns Reject.
C18_CampaignTerminates ==
    /\ <>protocol.is_training_complete
    /\ [](protocol.is_training_complete => Len(end_rounds) = protocol.settings.rounds)
    /\ [][RejectAfterCampaign]_vars

\* ----------------------------------------------------------------- C19
TimeoutOutcome ==
    \A id \in Clients :
        HeartBeatTimeout(id) \/ HeartBeatTimeoutStale(id) =>
            (protocol'.panicked <=> registry[id] \in {"Unknown", "DoneAndInactive"})

DirectEvents(seq) ==
    LET NotRunSelection(e) == e.type # "RunSelection"
    IN  SelectSeq(seq, NotRunSelection)

RendezVousEffects ==
    \A id \in Clients :
        RendezVous(id) /\ ~protocol.is_training_complete =>
            LET state == registry[id]
                c == protocol.counters
                direct == DirectEvents(Emitted(protocol, protocol'))
            IN  /\ reply'.kind = "Accept"
                /\ ~protocol'.panicked
                /\ state = "Unknown" =>
                       /\ protocol'.counters = [c EXCEPT !.waiting = @ + 1]
                       /\ direct = <<Accept(id)>>
                /\ state \in {"Waiting", "Ignored"} =>
                       /\ protocol'.counters = c
                       /\ direct = <<>>
                /\ state = "Selected" =>
                       /\ protocol'.counters =
                              [c EXCEPT !.selected = @ - 1, !.ignored = @ + 1]
                       /\ direct = <<SetState(id, "Ignored")>>
                /\ state \in {"Done", "DoneAndInactive"} =>
                       /\ protocol'.counters = [c EXCEPT !.ignored = @ + 1]
                       /\ direct = <<SetState(id, "Ignored")>>

\* C20: while is_training_complete is false, rendez_vous(id, prior_state)
\* returns Accept for every prior state, and its direct effects are: Unknown,
\* waiting += 1 and Accept(id); Waiting and Ignored, no counter change and no
\* Accept or SetState event; Selected, selected -= 1, ignored += 1 and
\* SetState(id, Ignored); Done and DoneAndInactive, ignored += 1, done and
\* done_and_inactive unchanged, and SetState(id, Ignored).
C20_RendezVousEffects == [][RendezVousEffects]_vars

\* the rendez_vous of a DoneAndInactive client has been accepted
C20_Witness ==
    /\ reply.kind = "Accept"
    /\ protocol.counters.done_and_inactive >= 1
    /\ \E id \in InState("DoneAndInactive") :
          /\ protocol.events # <<>>
          /\ Head(protocol.events) = SetState(id, "Ignored")

\* ----------------------------------------------------------------- C21
HeartBeatReplies ==
    Calls("heartbeat") /\ ~protocol.is_training_complete =>
        LET id == call'.id
            state == call'.state
            emitted == Emitted(protocol, protocol')
        IN  /\ state \in {"Unknown", "DoneAndInactive"} =>
                   /\ reply' = Reply("Reject", 0)
                   /\ emitted = <<>>
            /\ state \in {"Waiting", "Done", "Ignored"} =>
                   /\ reply' = Reply("StandBy", 0)
                   /\ emitted = <<ResetHeartBeat(id)>>
            /\ state = "Selected" =>
                   /\ reply' = Reply("Round", protocol.current_round)
                   /\ emitted = <<ResetHeartBeat(id)>>

\* C21: while is_training_complete is false, heartbeat(id, prior_state) replies
\* Reject and emits nothing for Unknown and DoneAndInactive, replies StandBy
\* and emits exactly ResetHeartBeat(id) for Waiting, Done and Ignored, and
\* replies Round(current_round) and emits exactly ResetHeartBeat(id) for
\* Selected.
C21_HeartBeatReplies == [][HeartBeatReplies]_vars

\* the heartbeat of a Selected client in round 1 got Round(1)
C21_Witness ==
    /\ call.op = "heartbeat"
    /\ call.state = "Selected"
    /\ ~protocol.is_training_complete
    /\ protocol.current_round = 1
    /\ reply = Reply("Round", 1)
    /\ protocol.events = <<ResetHeartBeat(call.id)>>

\* ----------------------------------------------------------------- C22
StartTrainingPure ==
    Calls("start_training") =>
        /\ reply'.kind \in {"Accept", "Reject"}
        /\ reply'.kind = "Accept" <=>
               call'.state = "Selected" /\ ~protocol.is_training_complete
        /\ protocol' = protocol

\* C22: start_training(prior_state) returns Accept if and only if prior_state
\* is Selected and is_training_complete is false, and in every state it
\* changes no counter, flag or round index and appends no event.
C22_StartTrainingPure == [][StartTrainingPure]_vars

\* the start_training of a Selected client was rejected by a complete campaign
C22_Witness ==
    /\ call.op = "start_training"
    /\ call.state = "Selected"
    /\ protocol.is_training_complete
    /\ reply.kind = "Reject"

\* ----------------------------------------------------------------- C23
HeartBeatFrame ==
    Calls("heartbeat") =>
        /\ protocol'.counters = protocol.counters
        /\ protocol'.current_round = protocol.current_round
        /\ protocol'.is_training_complete = protocol.is_training_complete
        /\ protocol'.waiting_for_aggregation = protocol.waiting_for_aggregation
        /\ protocol.events = SubSeq(protocol'.events, 1, Len(protocol.events))
        /\ \A e \in NewEvents : e = ResetHeartBeat(call'.id)

\* C23: heartbeat never changes the counters, current_round,
\* is_training_complete or waiting_for_aggregation, in any state and for any
\* prior state, and the only events it appends are ResetHeartBeat(id): it
\* never appends RunSelection.
C23_HeartBeatFrame == [][HeartBeatFrame]_vars

\* the heartbeat of a Waiting client has returned in a state in which the
\* selection policy selects clients: a re-evaluation would emit RunSelection
C23_Witness ==
    /\ call.op = "heartbeat"
    /\ call.state = "Waiting"
    /\ number_of_clients_to_select(protocol).tag = "Some"
    /\ protocol.events = <<ResetHeartBeat(call.id)>>

\* ----------------------------------------------------------------- C24
\* the events that the next_event calls returned, in order
ReturnedEvents ==
    LET IsSome(o) == o.tag = "Some"
        somes == SelectSeq(returned, IsSome)
    IN  [i \in 1..Len(somes) |-> somes[i].value]

\* what was returned and what is queued are the emitted events, in order
FirstInFirstOut == ReturnedEvents \o protocol.events = appended

\* before any event is emitted the queue is empty and the counters are 0
FreshDriver ==
    appended = <<>> => protocol.events = <<>> /\ protocol.counters = Counters_new

\* next_event returns nothing exactly when the queue is empty
NothingWhenDrained ==
    QueuedNextEvent =>
        (returned'[Len(returned')] = None <=> protocol.events = <<>>)

\* C24: the outbound queue is first-in-first-out: the next_event calls return
\* the events in the order in which the entry-point calls appended them, each
\* exactly once, next_event returns nothing when the queue is drained, and a
\* fresh driver has an empty queue and all counters 0.
C24_QueueFirstInFirstOut ==
    /\ []FirstInFirstOut
    /\ []FreshDriver
    /\ [][NothingWhenDrained]_vars

\* the calls of test_heartbeat_timeout_selected_participant were made before
\* any next_event call, and five next_event calls have returned the four
\* events and then nothing
C24_Witness ==
    /\ appended = <<Accept(1), RunSelection(1), SetState(1, "Selected"), Remove(1)>>
    /\ returned = <<Some(Accept(1)), Some(RunSelection(1)),
                    Some(SetState(1, "Selected")), Some(Remove(1)), None>>

\* ----------------------------------------------------------------- C25
SuccessfulEndTraining ==
    \A id \in Clients :
        /\ EndTraining(id, TRUE)
        /\ registry[id] = "Selected"
        /\ ~protocol.is_training_complete
        /\ ~protocol.waiting_for_aggregation
        => LET c == protocol.counters
               counted == [c EXCEPT !.selected = @ - 1, !.done = @ + 1]
               round_ends ==
                   /\ counted.selected = 0
                   /\ number_of_clients_to_select(
                          [protocol EXCEPT !.counters = counted]).tag = "None"
               emitted == Emitted(protocol, protocol')
           IN  /\ ~protocol'.panicked
               /\ emitted # <<>> /\ Head(emitted) = SetState(id, "Done")
               /\ round_ends =>
                      /\ emitted = <<SetState(id, "Done"), RunAggregation, ResetAll>>
                      /\ protocol'.waiting_for_aggregation
                      /\ protocol'.counters =
                             [waiting |-> c.waiting + (c.done + 1) + c.ignored,
                              selected |-> 0, done |-> 0, done_and_inactive |-> 0,
                              ignored |-> 0]
               /\ ~round_ends =>
                      /\ DirectEvents(emitted) = <<SetState(id, "Done")>>
                      /\ ~protocol'.waiting_for_aggregation
                      /\ protocol'.counters = counted

\* C25: a successful end_training for a Selected client, called when neither
\* flag is set, decrements selected, increments done and emits
\* SetState(id, Done); if selected is then 0 and the selection policy selects
\* no one, it emits RunAggregation and then ResetAll after SetState(id, Done),
\* sets waiting_for_aggregation, and sets waiting to its old value + done +
\* ignored (done with the client just finished, done_and_inactive not added)
\* while zeroing done, done_and_inactive and ignored; otherwise it emits
\* neither RunAggregation nor ResetAll.
C25_SuccessfulEndTraining == [][SuccessfulEndTraining]_vars

\* the round has ended with a client whose training failed: the finished
\* client and the ignored one are merged into waiting
C25_Witness ==
    /\ protocol.waiting_for_aggregation
    /\ \E id \in InState("Selected") :
          protocol.events = <<SetState(id, "Done"), RunAggregation, ResetAll>>
    /\ InState("Ignored") # {}
    /\ protocol.counters =
           [waiting |-> 2, selected |-> 0, done |-> 0, done_and_inactive |-> 0,
            ignored |-> 0]

\* ----------------------------------------------------------------- C26
\* the value the selection policy is to have, from the rationals
\* participants_ratio * min_clients and participants_ratio * T
PolicyValue(self) ==
    LET num == self.settings.participants_ratio[1]
        den == self.settings.participants_ratio[2]
        P == self.counters.selected + self.counters.done + self.counters.done_and_inactive
        T == P + self.counters.waiting
        floor_min == CHOOSE k \in 0..(num * self.settings.min_clients) :
                         k * den <= num * self.settings.min_clients
                         /\ num * self.settings.min_clients < (k + 1) * den
        ceil_target == CHOOSE k \in 0..(num * T) :
                           (k - 1) * den < num * T /\ num * T <= k * den
    IN  IF \/ self.is_training_complete
           \/ self.waiting_for_aggregation
           \/ P >= floor_min
           \/ T < self.settings.min_clients
        THEN None
        ELSE Some(ceil_target - P)

PolicyFollowed == number_of_clients_to_select(protocol) = PolicyValue(protocol)

RunSelectionAsPolicy ==
    Calls("select") =>
        Emitted(protocol, protocol') =
            IF PolicyValue(protocol) = None THEN <<>>
            ELSE <<RunSelection(PolicyValue(protocol).value)>>

\* C26: with P = selected + done + done_and_inactive and T = P + waiting, the
\* selection policy selects nobody when is_training_complete, or
\* waiting_for_aggregation, or P >= floor(participants_ratio * min_clients), or
\* T < min_clients, and in every other state it yields exactly
\* ceil(participants_ratio * T) - P.
C26_SelectionPolicy == []PolicyFollowed /\ [][RunSelectionAsPolicy]_vars

\* half of three clients, rounded up: the policy has asked for two of the
\* three waiting clients
C26_Witness ==
    /\ call.op = "select"
    /\ protocol.settings.participants_ratio = <<1, 2>>
    /\ protocol.counters =
           [waiting |-> 3, selected |-> 0, done |-> 0, done_and_inactive |-> 0,
            ignored |-> 0]
    /\ protocol.events = <<RunSelection(2)>>

\* ----------------------------------------------------------------- C27
\* the candidates of select as the registry holds them
FromRegistry(ids) == [i \in 1..Len(ids) |-> [id |-> ids[i], state |-> registry[ids[i]]]]

\* the call that took the driver from before to after ended by re-evaluating
\* the selection policy
Reevaluated(before, after) ==
    LET emitted == Emitted(before, after)
        count == number_of_clients_to_select(after)
    IN  /\ ~after.panicked
        /\ count # None =>
               /\ emitted # <<>>
               /\ emitted[Len(emitted)] = RunSelection(count.value)
        /\ \A i \in 1..Len(emitted) :
               emitted[i].type = "RunSelection" =>
                   i = Len(emitted) /\ count # None

\* C27: every state-changing entry point (rendez_vous when not complete,
\* heartbeat_timeout, select, end_training that passes its guards,
\* end_aggregation that does not complete the campaign), called from any state
\* in which the host can make a call, ends by re-evaluating the selection
\* policy on its post-state: it appends RunSelection(n) if and only if the
\* policy yields n on the post-state, and that RunSelection is the last event
\* the call appends, after its direct events.
C27_SelectionReevaluated ==
    Quiescent =>
        /\ ~protocol.is_training_complete =>
               \A id \in Clients :
                   Reevaluated(protocol, rendez_vous(protocol, id, registry[id]).self)
        /\ \A id \in Clients \ (InState("Unknown") \cup InState("DoneAndInactive")) :
               Reevaluated(protocol, heartbeat_timeout(protocol, id, registry[id]))
        /\ \A ids \in CandidateIds :
               Reevaluated(protocol, select(protocol, FromRegistry(ids)))
        /\ ~protocol.is_training_complete /\ ~protocol.waiting_for_aggregation =>
               \A id \in InState("Selected"), success \in BOOLEAN :
                   Reevaluated(protocol, end_training(protocol, id, success, "Selected"))
        /\ protocol.waiting_for_aggregation =>
               \A success \in BOOLEAN :
                   LET after == end_aggregation(protocol, success)
                   IN  ~after.is_training_complete => Reevaluated(protocol, after)

\* the rendez_vous of a new client has appended Accept(id) and then the
\* RunSelection for all the waiting clients, the new one included
C27_Witness ==
    /\ protocol.counters.waiting = 2
    /\ \E id \in InState("Unknown") :
          protocol.events = <<Accept(id), RunSelection(2)>>

\* ----------------------------------------------------------------- C28
\* the Waiting candidates that a select in need of n clients takes
Taken(n, candidates) ==
    LET IsWaiting(c) == c.state = "Waiting"
        waiting == SelectSeq(candidates, IsWaiting)
    IN  SubSeq(waiting, 1, IF n < Len(waiting) THEN n ELSE Len(waiting))

\* C28: from every state in which the host can make a call, select(candidates)
\* selects at most n clients, n being the value of the selection policy at the
\* start of the call (0 when it selects nobody): it takes the first n Waiting
\* candidates, moves one unit from waiting to selected and emits
\* SetState(id, Selected) for each of them, in order, discards the candidates
\* in any other state and those beyond the need without a counter change or
\* an event, and keeps waiting + selected unchanged.
C28_SelectBoundedByNeed ==
    Quiescent =>
        \A ids \in CandidateIds :
            LET count == number_of_clients_to_select(protocol)
                n == IF count = None THEN 0 ELSE count.value
                taken == Taken(n, FromRegistry(ids))
                after == select(protocol, FromRegistry(ids))
                c == protocol.counters
            IN  /\ ~after.panicked
                /\ Len(taken) <= n
                /\ DirectEvents(Emitted(protocol, after)) =
                       [i \in 1..Len(taken) |-> SetState(taken[i].id, "Selected")]
                /\ after.counters =
                       [c EXCEPT !.waiting = @ - Len(taken), !.selected = @ + Len(taken)]
                /\ after.counters.waiting + after.counters.selected =
                       c.waiting + c.selected
                /\ after.is_training_complete = protocol.is_training_complete
                /\ after.waiting_for_aggregation = protocol.waiting_for_aggregation
                /\ after.current_round = protocol.current_round

\* half of the two waiting clients were needed: select has taken one client
\* and left the other waiting
C28_Witness ==
    /\ protocol.settings.participants_ratio = <<1, 2>>
    /\ InState("Waiting") = Clients
    /\ protocol.counters.waiting = 1
    /\ protocol.counters.selected = 1
    /\ \E id \in Clients : protocol.events = <<SetState(id, "Selected")>>

\* ----------------------------------------------------------------- C29
FailedAggregation ==
    protocol.waiting_for_aggregation /\ EndAggregation(FALSE) =>
        /\ ~protocol'.waiting_for_aggregation
        /\ protocol'.current_round = protocol.current_round
        /\ protocol'.is_training_complete = protocol.is_training_complete
        /\ ~protocol'.is_training_complete
        /\ protocol'.counters = protocol.counters
        /\ FourCountersZero(protocol')
        /\ Emitted(protocol, protocol') =
               IF PolicyValue(protocol') = None THEN <<>>
               ELSE <<RunSelection(PolicyValue(protocol').value)>>

\* C29: end_aggregation(false) called while waiting_for_aggregation is true
\* clears waiting_for_aggregation, leaves current_round, is_training_complete
\* and all the counters unchanged and emits no EndRound; the round restarts in
\* the same current_round on the counters that end_training has reset, and
\* the selection is re-evaluated on the merged waiting pool.
C29_FailedAggregationRestartsRound == [][FailedAggregation]_vars

\* the aggregation of round 1 has failed: the round is still 1, no second
\* EndRound was emitted and both merged clients are asked for again
C29_Witness ==
    /\ failed_aggregations = 1
    /\ ~agg_outstanding
    /\ protocol.current_round = 1
    /\ end_rounds = <<0>>
    /\ protocol.counters.waiting = 2
    /\ protocol.events = <<RunSelection(2)>>

\* ----------------------------------------------------------------- C30
EndAggregationIgnored ==
    Calls("end_aggregation") /\ ~protocol.waiting_for_aggregation =>
        protocol' = protocol

\* C30: end_aggregation(success) called while waiting_for_aggregation is false
\* is ignored for both values of success: the counters, current_round,
\* is_training_complete, waiting_for_aggregation and the event queue are
\* unchanged.
C30_EndAggregationIgnored == [][EndAggregationIgnored]_vars

\* end_aggregation(true) has returned in a running round, in a state in which
\* a re-evaluation of the selection would have emitted RunSelection
C30_Witness ==
    /\ call.op = "end_aggregation"
    /\ call.success
    /\ ~protocol.waiting_for_aggregation
    /\ ~protocol.is_training_complete
    /\ protocol.current_round = 0
    /\ number_of_clients_to_select(protocol).tag = "Some"
    /\ protocol.events = <<>>

\* ----------------------------------------------------------------- C31
TimeoutEffects ==
    \A id \in Clients :
        HeartBeatTimeout(id) \/ HeartBeatTimeoutStale(id) =>
            LET state == registry[id]
                c == protocol.counters
                emitted == Emitted(protocol, protocol')
            IN  /\ emitted # <<>> /\ Head(emitted) = Remove(id)
                /\ state = "Waiting" =>
                       /\ protocol'.counters = [c EXCEPT !.waiting = @ - 1]
                       /\ DirectEvents(emitted) = <<Remove(id)>>
                /\ state = "Selected" =>
                       /\ protocol'.counters = [c EXCEPT !.selected = @ - 1]
                       /\ DirectEvents(emitted) = <<Remove(id)>>
                /\ state = "Ignored" =>
                       /\ protocol'.counters = [c EXCEPT !.ignored = @ - 1]
                       /\ DirectEvents(emitted) = <<Remove(id)>>
                /\ state = "Done" =>
                       /\ protocol'.counters = [c EXCEPT !.done_and_inactive = @ + 1]
                       /\ DirectEvents(emitted) =
                              <<Remove(id), SetState(id, "DoneAndInactive")>>

\* C31: heartbeat_timeout(id, prior_state) always appends Remove(id) as its
\* first event; for Waiting, Selected and Ignored it decrements exactly the
\* matching counter by 1 and emits no SetState; for Done it increments
\* done_and_inactive by 1, leaves done unchanged and appends
\* SetState(id, DoneAndInactive) after Remove(id).
C31_TimeoutEffects == [][TimeoutEffects]_vars

\* the timer of a Done client has fired: the client is counted in done and in
\* done_and_inactive
C31_Witness ==
    /\ protocol.counters.done = 1
    /\ protocol.counters.done_and_inactive = 1
    /\ \E id \in InState("Done") :
          /\ Len(protocol.events) >= 2
          /\ protocol.events[1] = Remove(id)
          /\ protocol.events[2] = SetState(id, "DoneAndInactive")

\* ----------------------------------------------------------------- C32
\* done is read after the increment of the end_training that emits
\* RunAggregation, and before the reset
EnoughFinished ==
    RunAggregation \in NewEvents =>
        protocol.counters.done + 1 + protocol.counters.done_and_inactive
            >= minimum_participants(protocol.settings)

\* C32: at every emission of RunAggregation, done + done_and_inactive, taken
\* just before the counters are reset, is at least minimum_participants =
\* floor(participants_ratio * min_clients), also after selected clients have
\* timed out and the population has fallen below min_clients.
C32_AggregationHasEnoughFinished == [][EnoughFinished]_vars

\* ----------------------------------------------------------------- C33
\* waiting_for_aggregation is cleared by end_aggregation only: a step that
\* starts and ends with it set is not an end_aggregation call
DuringAggregation ==
    protocol.waiting_for_aggregation /\ protocol'.waiting_for_aggregation =>
        /\ \A e \in NewEvents :
              /\ e.type # "RunSelection"
              /\ ~(e.type = "SetState" /\ e.state = "Selected")
        /\ protocol'.counters.selected <= protocol.counters.selected

\* C33: in every state where waiting_for_aggregation is true the selected
\* counter is 0, and until the next end_aggregation call no entry point emits
\* RunSelection or SetState(id, Selected) or increases selected.
C33_NoTrainingDuringAggregation ==
    /\ [](protocol.waiting_for_aggregation => protocol.counters.selected = 0)
    /\ [][DuringAggregation]_vars

\* a new client was accepted during the aggregation, with enough waiting
\* clients for a selection, and no selection was asked for
C33_Witness ==
    /\ protocol.waiting_for_aggregation
    /\ minimum_participants(protocol.settings) >= 1
    /\ protocol.counters.waiting >= protocol.settings.min_clients
    /\ \E id \in InState("Unknown") : protocol.events = <<Accept(id)>>

====
